---------------------------- MODULE Spec2Model ----------------------------
(***************************************************************************)
(* A model of curegit/tinyneuron: the StyleGAN2 synthesis links            *)
(* (src/stylegan/links/generator.py) and the sRGB image utility            *)
(* (src/utilities/image.py).                                               *)
(*                                                                         *)
(* Tensors are records [shape, den, data]: a row-major flat sequence of    *)
(* integer numerators over one common positive denominator, so that        *)
(* reshape is what it is in numpy (the shape changes, the flat data does   *)
(* not) and the linear operations (convolution, bilinear resampling,       *)
(* addition, leaky ReLU) are exact.  The two irrational operations, the    *)
(* demodulation's square root and the sRGB power law, are computed in      *)
(* fixed point.                                                            *)
(***************************************************************************)
EXTENDS Integers, Sequences, FiniteSets, TLC

VARIABLES
    ipc,      \* image utility: "start", "loaded", "saved"
    pix,      \* the 8-bit sample read from the file (-1: none)
    lin,      \* the linear-light sample, fixed point with FixOne = 1.0
    enc,      \* the 8-bit sample written by to_pil_image (-1: none)
    cpc,      \* one modulated convolution: "new", "built", "fed", "called", "done"
    clayer,   \* the WeightDemodulatedConvolution2D link (its attributes)
    cx,       \* the feature map handed to __call__
    cy,       \* the modulation handed to __call__
    cout,     \* what __call__ returned (ErrT: it raised)
    chshape,  \* the shape of h, the grouped convolution's result (line 37)
    cseq,     \* the sequential evaluation so far: per sample, its output
              \* (seq), __call__ on the sample alone (alone), and the
              \* convolution with the modulated learned weights alone (raw)
    npc,      \* one NoiseAdder: "new", "built", "fed", "called"
    nlayer,   \* the NoiseAdder link
    nx,       \* the feature map handed to __call__
    nnoise,   \* what GaussianDistribution drew in the call
    nout,     \* what __call__ returned
    gpc,      \* the generator: "new", "built", "ran"
    gabs,     \* TRUE: only the tensors' shapes are tracked
    gblocks,  \* the blocks constructed so far (their links and parameters)
    gw,       \* the style vector
    gx,       \* the feature map returned by the last block
    gy,       \* the RGB accumulator returned by the last block
    gprev,    \* the feature map and accumulator the last block was given
    gdraw,    \* the noise draws of the last block call
    gtrace,   \* the convolutions and noise adders the last block call used
    gcontrib, \* the ToRGB contribution of every block call so far
    gagain    \* a second forward pass of the last block on the same inputs

imgVars == <<ipc, pix, lin, enc>>

convVars == <<cpc, clayer, cx, cy, cout, chshape, cseq>>

noiseVars == <<npc, nlayer, nx, nnoise, nout>>

chainVars == <<gpc, gabs, gblocks, gw, gx, gy, gprev, gdraw, gtrace, gcontrib, gagain>>

vars == <<imgVars, convVars, noiseVars, chainVars>>

-----------------------------------------------------------------------------
(* Integer helpers *)

Min(a, b) == IF a <= b THEN a ELSE b

Max(a, b) == IF a >= b THEN a ELSE b

Abs(a) == IF a >= 0 THEN a ELSE 0 - a

Clip(x, lo, hi) == Min(Max(x, lo), hi)

RECURSIVE SearchLargest(_, _, _, _)
\* the largest z in lo..hi with F(z) <= target (F monotone, F(lo) <= target)
SearchLargest(F(_), target, lo, hi) ==
    IF lo >= hi THEN lo
    ELSE LET m == (lo + hi + 1) \div 2
         IN  IF F(m) <= target THEN SearchLargest(F, target, m, hi)
             ELSE SearchLargest(F, target, lo, m - 1)

Square(z) == z * z

RECURSIVE SumTo(_, _)
\* F(0) + ... + F(n - 1)
SumTo(F(_), n) == IF n = 0 THEN 0 ELSE F(n - 1) + SumTo(F, n - 1)

\* the integer square root; 46340 is the largest root of a 32-bit integer
Isqrt(n) == SearchLargest(Square, n, 0, Min(n, 46340))

-----------------------------------------------------------------------------
(* Tensors: numpy arrays / chainer variables *)

RECURSIVE Prod(_)
Prod(s) == IF s = <<>> THEN 1 ELSE Head(s) * Prod(Tail(s))

ErrShape == <<-1>>

\* what an operation that raised leaves behind
ErrT == [shape |-> ErrShape, den |-> 1, data |-> <<>>]

IsErr(t) == t.shape = ErrShape

Tensor(shape, den, data) == [shape |-> shape, den |-> den, data |-> data]

\* a tensor whose values are not tracked: only its shape is
Abstract(shape) == [shape |-> shape, den |-> 1, data |-> <<>>]

IsAbs(t) == t.data = <<>> /\ t.shape # ErrShape

RECURSIVE Gcd(_, _)
Gcd(a, b) == IF b = 0 THEN a ELSE Gcd(b, a % b)

Lcm(a, b) == (a \div Gcd(a, b)) * b

\* a tensor of the given shape filled from a seed: values in -2 .. 2
Gen(seed, salt, shape) ==
    Tensor(shape, 1,
           [i \in 1 .. Prod(shape) |->
               ((i * i * (seed + 1) + salt * i + seed) % 5) - 2])

\* a parameter or an input of the given shape: seeded values, or (abs) only
\* its shape
Param(abs, seed, salt, shape) ==
    IF abs THEN Abstract(shape) ELSE Gen(seed, salt, shape)

Stride(shape, d) == Prod(SubSeq(shape, d + 1, Len(shape)))

\* the multi-index (0-based) of flat position p (0-based), row-major
Unravel(p, shape) ==
    [d \in 1 .. Len(shape) |-> (p \div Stride(shape, d)) % shape[d]]

\* numpy.reshape: the flat data is kept, the element count must agree
Reshape(t, shape) ==
    IF IsErr(t) \/ Prod(shape) # Prod(t.shape) THEN ErrT
    ELSE [t EXCEPT !.shape = shape]

\* dimension i (of n, right-aligned) of a shape under numpy broadcasting
BDim(shape, i, n) ==
    IF i > n - Len(shape) THEN shape[i - (n - Len(shape))] ELSE 1

BroadcastShape(s1, s2) ==
    LET n == Max(Len(s1), Len(s2))
    IN  IF \A i \in 1 .. n :
              \/ BDim(s1, i, n) = BDim(s2, i, n)
              \/ BDim(s1, i, n) = 1
              \/ BDim(s2, i, n) = 1
        THEN [i \in 1 .. n |-> Max(BDim(s1, i, n), BDim(s2, i, n))]
        ELSE ErrShape

\* for each flat position of the broadcast result, the flat position of the
\* operand's element there (both 1-based): a dimension of size 1 is repeated
BOffsets(shape, tshape) ==
    LET n == Len(shape)
        off == n - Len(tshape)
        str == [d \in 1 .. n |-> Stride(shape, d)]
        own == [d \in 1 .. n |->
                   IF d > off /\ tshape[d - off] # 1
                   THEN Stride(tshape, d - off) ELSE 0]
    IN  [p \in 1 .. Prod(shape) |->
            1 + SumTo(LAMBDA d :
                        (((p - 1) \div str[d + 1]) % shape[d + 1]) * own[d + 1],
                      n)]

\* a * b with broadcasting (chainer's Variable.__mul__)
TMul(a, b) ==
    IF IsErr(a) \/ IsErr(b) THEN ErrT
    ELSE LET shape == BroadcastShape(a.shape, b.shape)
         IN  IF shape = ErrShape THEN ErrT
             ELSE IF IsAbs(a) \/ IsAbs(b) THEN Abstract(shape)
             ELSE LET ia == BOffsets(shape, a.shape)
                      ib == BOffsets(shape, b.shape)
                  IN  Tensor(shape, a.den * b.den,
                             [p \in 1 .. Prod(shape) |->
                                 a.data[ia[p]] * b.data[ib[p]]])

\* a + b with broadcasting (chainer's Variable.__add__)
TAdd(a, b) ==
    IF IsErr(a) \/ IsErr(b) THEN ErrT
    ELSE LET shape == BroadcastShape(a.shape, b.shape)
         IN  IF shape = ErrShape THEN ErrT
             ELSE IF IsAbs(a) \/ IsAbs(b) THEN Abstract(shape)
             ELSE LET ia == BOffsets(shape, a.shape)
                      ib == BOffsets(shape, b.shape)
                      den == Lcm(a.den, b.den)
                  IN  Tensor(shape, den,
                             [p \in 1 .. Prod(shape) |->
                                 a.data[ia[p]] * (den \div a.den)
                                 + b.data[ib[p]] * (den \div b.den)])

\* element (n, c, i, j), 0-based, of a rank-4 tensor
At4(t, n, c, i, j) ==
    t.data[1 + ((n * t.shape[2] + c) * t.shape[3] + i) * t.shape[4] + j]

\* two tensors hold the same values
TEq(a, b) ==
    /\ a.shape = b.shape
    /\ LET g == Gcd(a.den, b.den)
       IN  \A p \in 1 .. Prod(a.shape) :
               a.data[p] * (b.den \div g) = b.data[p] * (a.den \div g)

-----------------------------------------------------------------------------
(* src/stylegan/links/generator.py: WeightDemodulatedConvolution2D *)

\* chainer.functions.pad(x, ((0, 0), (0, 0), (p, p), (p, p)), mode="edge")
PadEdge(x, p) ==
    IF IsErr(x) \/ Len(x.shape) # 4 THEN ErrT
    ELSE LET ph == x.shape[3] + 2 * p
             pw == x.shape[4] + 2 * p
             shape == <<x.shape[1], x.shape[2], ph, pw>>
         IN  IF IsAbs(x) THEN Abstract(shape)
             ELSE
             Tensor(shape, x.den,
                    [q \in 1 .. Prod(shape) |->
                        At4(x, (q - 1) \div (x.shape[2] * ph * pw),
                            ((q - 1) \div (ph * pw)) % x.shape[2],
                            Clip((((q - 1) \div pw) % ph) - p, 0, x.shape[3] - 1),
                            Clip(((q - 1) % pw) - p, 0, x.shape[4] - 1))])

\* the result shape of convolution_2d(x, W, stride=1, pad=0, groups=groups)
Conv2DShape(xs, ws, groups) ==
    IF \/ Len(xs) # 4
       \/ Len(ws) # 4
       \/ xs[2] # ws[2] * groups
       \/ ws[1] % groups # 0
       \/ xs[3] < ws[3]
       \/ xs[4] < ws[4]
    THEN ErrShape
    ELSE <<xs[1], ws[1], xs[3] - ws[3] + 1, xs[4] - ws[4] + 1>>

\* convolution_2d(x, W, stride=1, pad=0, groups=groups): output channel o
\* belongs to group o div (Co / groups) and reads that group's input channels
Conv2D(x, W, groups) ==
    IF IsErr(x) \/ IsErr(W) THEN ErrT
    ELSE LET shape == Conv2DShape(x.shape, W.shape, groups)
             ci == W.shape[2]
             kh == W.shape[3]
             kw == W.shape[4]
             og == W.shape[1] \div groups
         IN  IF shape = ErrShape THEN ErrT
             ELSE IF IsAbs(x) \/ IsAbs(W) THEN Abstract(shape)
             ELSE Tensor(shape, x.den * W.den,
                    [q \in 1 .. Prod(shape) |->
                        LET n == (q - 1) \div (shape[2] * shape[3] * shape[4])
                            o == ((q - 1) \div (shape[3] * shape[4])) % shape[2]
                            i == ((q - 1) \div shape[4]) % shape[3]
                            j == (q - 1) % shape[4]
                        IN  SumTo(LAMBDA t :
                                    At4(x, n, ((o \div og) * ci) + (t \div (kh * kw)),
                                        i + ((t \div kw) % kh), j + (t % kw))
                                    * W.data[1 + o * ci * kh * kw + t],
                                  ci * kh * kw)])

\* the unit of the demodulated weights' fixed point
DemodOne == 64

\* num / sqrt(ss + 1e-8) in units of 1 / DemodOne, rounded to nearest; ss is
\* the sum of squares of integers that include num, so ss = 0 only if num = 0
Normalise(num, ss) ==
    IF ss = 0 THEN 0
    ELSE LET r == (Isqrt((4 * num * num * DemodOne * DemodOne) \div ss) + 1) \div 2
         IN  IF num >= 0 THEN r ELSE 0 - r

\* a slip: the sum runs over the batch axis too
SumSquaresAllBatch(mod_w, b, o) ==
    LET inner == Prod(SubSeq(mod_w.shape, 3, 5))
    IN  SumTo(LAMBDA n :
                SumTo(LAMBDA t :
                        Square(mod_w.data[1 + (n * mod_w.shape[2] + o) * inner + t]),
                      inner),
              mod_w.shape[1])

\* sum(mod_w ** 2, axis=(2, 3, 4), keepdims=True) at (b, o)
SumSquares(mod_w, b, o) ==
    LET inner == Prod(SubSeq(mod_w.shape, 3, 5))
    IN  SumTo(LAMBDA t :
                Square(mod_w.data[1 + (b * mod_w.shape[2] + o) * inner + t]),
              inner)

\* mod_w / sqrt(sum(mod_w ** 2, axis=(2, 3, 4), keepdims=True) + 1e-8)
Demodulate(mod_w) ==
    IF IsErr(mod_w) \/ IsAbs(mod_w) THEN mod_w
    ELSE LET inner == Prod(SubSeq(mod_w.shape, 3, 5))
             ss == [b \in 0 .. mod_w.shape[1] - 1 |->
                     [o \in 0 .. mod_w.shape[2] - 1 |-> SumSquares(mod_w, b, o)]]
         IN  Tensor(mod_w.shape, DemodOne,
                    [p \in 1 .. Prod(mod_w.shape) |->
                        Normalise(mod_w.data[p],
                                  ss[(p - 1) \div (inner * mod_w.shape[2])]
                                    [((p - 1) \div inner) % mod_w.shape[2]])])

\* a slip: no padding for the 3x3 kernel
WDCInitNoPad(abs, in_channels, out_channels, pointwise, demod, gain2, seed) ==
    LET ksize == IF pointwise THEN 1 ELSE 3
    IN  [demod |-> demod, ksize |-> ksize, pad |-> 0,
         c2 |-> <<gain2, in_channels * ksize * ksize>>,
         w |-> Param(abs, seed, 1, <<out_channels, in_channels, ksize, ksize>>),
         b |-> Param(abs, seed, 2, <<out_channels>>)]

\* __init__; gain2 is gain squared and c2 the fraction c squared (c = gain *
\* root(1 / (in_channels * ksize ** 2))); w and b are the learned parameters
WDCInit(abs, in_channels, out_channels, pointwise, demod, gain2, seed) ==
    LET ksize == IF pointwise THEN 1 ELSE 3
    IN  [demod |-> demod, ksize |-> ksize, pad |-> IF pointwise THEN 0 ELSE 1,
         c2 |-> <<gain2, in_channels * ksize * ksize>>,
         w |-> Param(abs, seed, 1, <<out_channels, in_channels, ksize, ksize>>),
         b |-> Param(abs, seed, 2, <<out_channels>>)]

\* h of __call__ (lines 30-37): the grouped convolution's result
WDCGrouped(L, x, y) ==
    IF IsErr(x) \/ IsErr(y) \/ Len(x.shape) # 4 THEN ErrT
    ELSE LET out_channels == L.b.shape[1]
             batch == x.shape[1]
             in_channels == x.shape[2]
             height == x.shape[3]
             width == x.shape[4]
             mod_w == TMul(L.w, Reshape(y, <<batch, 1, in_channels, 1, 1>>))
             w == IF L.demod THEN Demodulate(mod_w) ELSE mod_w
             group_w == Reshape(w, <<batch * out_channels, in_channels,
                                     L.ksize, L.ksize>>)
             group_x == Reshape(x, <<1, batch * in_channels, height, width>>)
             pad_group_x == PadEdge(group_x, L.pad)
         IN  Conv2D(pad_group_x, group_w, batch)

\* the return of __call__ (line 38), given h
WDCReturn(L, x, h) ==
    IF IsErr(x) \/ Len(x.shape) # 4 THEN ErrT
    ELSE LET out_channels == L.b.shape[1]
         IN  TAdd(Reshape(h, <<x.shape[1], out_channels, x.shape[3], x.shape[4]>>),
                  Reshape(L.b, <<1, out_channels, 1, 1>>))

\* __call__
WDCCall(L, x, y) == WDCReturn(L, x, WDCGrouped(L, x, y))

\* sample i of a batch, as a batch of one
SliceBatch(t, i) ==
    LET n == Prod(Tail(t.shape))
    IN  Tensor(<<1>> \o Tail(t.shape), t.den, SubSeq(t.data, i * n + 1, (i + 1) * n))

-----------------------------------------------------------------------------
(* src/stylegan/links/generator.py: the other links *)

\* round(a / b) for b > 0, halves up
RoundDiv(a, b) == (2 * a + b) \div (2 * b)

\* EqualizedLinear(size, channels, initial_bias=One(), gain=1): a learned
\* affine map, weight (channels, size) and bias (channels)
SATInit(abs, size, channels, seed, salt) ==
    [w |-> Param(abs, seed, salt, <<channels, size>>),
     b |-> Param(abs, seed, salt + 1, <<channels>>)]

\* StyleAffineTransform.__call__: w W^T + b for a style w of shape (B, size)
SATCall(S, w) ==
    IF IsErr(w) \/ Len(w.shape) # 2 \/ w.shape[2] # S.w.shape[2] THEN ErrT
    ELSE LET shape == <<w.shape[1], S.w.shape[1]>>
             size == S.w.shape[2]
         IN  IF IsAbs(w) \/ IsAbs(S.w) THEN Abstract(shape)
             ELSE Tensor(shape, w.den * S.w.den * S.b.den,
                    [p \in 1 .. Prod(shape) |->
                        LET b == (p - 1) \div shape[2]
                            c == (p - 1) % shape[2]
                        IN  SumTo(LAMBDA d :
                                    w.data[1 + b * size + d]
                                    * S.w.data[1 + c * size + d],
                                  size) * S.b.den
                            + S.b.data[c + 1] * w.den * S.w.den])

\* the draw of GaussianDistribution for the given shape: pinned to zero
\* (draw = 0) or one of the seeded draws
NoiseDraw(abs, draw, shape) ==
    IF abs THEN Abstract(shape)
    ELSE IF draw = 0 THEN Tensor(shape, 1, [i \in 1 .. Prod(shape) |-> 0])
    ELSE Gen(draw, 5, shape)

\* chainer.functions.broadcast_to(t, shape)
BroadcastTo(t, shape) ==
    IF IsErr(t) \/ BroadcastShape(t.shape, shape) # shape THEN ErrT
    ELSE IF IsAbs(t) THEN Abstract(shape)
    ELSE LET it == BOffsets(shape, t.shape)
         IN  Tensor(shape, t.den, [p \in 1 .. Prod(shape) |-> t.data[it[p]]])

\* chainer.functions.scale(x, y) (axis=1): x[b, c, h, w] * y[c]
Scale(x, y) ==
    IF IsErr(x) \/ IsErr(y) \/ Len(x.shape) # 4 \/ y.shape # <<x.shape[2]>>
    THEN ErrT
    ELSE TMul(x, Reshape(y, <<1, y.shape[1], 1, 1>>))

\* a slip: one noise value per channel instead of one per pixel
NoiseAdderPerChannel(N, x, draw) ==
    IF IsErr(x) \/ Len(x.shape) # 4 THEN ErrT
    ELSE TAdd(x, Scale(NoiseDraw(IsAbs(x), draw, x.shape), N.s))

\* NoiseAdder.__call__: the draw has one channel and is broadcast to all
NoiseAdderCall(N, x, draw) ==
    IF IsErr(x) \/ Len(x.shape) # 4 THEN ErrT
    ELSE LET n == BroadcastTo(NoiseDraw(IsAbs(x), draw,
                                        <<x.shape[1], 1, x.shape[3], x.shape[4]>>),
                              x.shape)
         IN  TAdd(x, Scale(n, N.s))

\* a slip: only the height is doubled
UpsamplerHeightOnly(x) ==
    IF IsErr(x) \/ Len(x.shape) # 4 THEN ErrT
    ELSE Abstract(<<x.shape[1], x.shape[2], 2 * x.shape[3], x.shape[4]>>)

\* Upsampler.__call__: resize_images(x, (2H, 2W), align_corners=False),
\* bilinear.  Output row i samples at max(i / 2 - 1 / 4, 0): in quarters,
\* max(2 i - 1, 0) = 4 v0 + f, with weights (4 - f) / 4 on row v0 and f / 4 on
\* row min(v0 + 1, H - 1); columns alike.  The result is exact over 16 den.
Upsampler(x) ==
    IF IsErr(x) \/ Len(x.shape) # 4 THEN ErrT
    ELSE LET H == x.shape[3]
             W == x.shape[4]
             shape == <<x.shape[1], x.shape[2], 2 * H, 2 * W>>
         IN  IF IsAbs(x) THEN Abstract(shape)
             ELSE Tensor(shape, 16 * x.den,
                    [q \in 1 .. Prod(shape) |->
                        LET n == (q - 1) \div (shape[2] * shape[3] * shape[4])
                            c == ((q - 1) \div (shape[3] * shape[4])) % shape[2]
                            vq == Max(2 * (((q - 1) \div shape[4]) % shape[3]) - 1, 0)
                            uq == Max(2 * ((q - 1) % shape[4]) - 1, 0)
                            v0 == vq \div 4
                            u0 == uq \div 4
                            v1 == Min(v0 + 1, H - 1)
                            u1 == Min(u0 + 1, W - 1)
                            vw == vq % 4
                            uw == uq % 4
                        IN  (4 - vw) * (4 - uw) * At4(x, n, c, v0, u0)
                            + (4 - vw) * uw * At4(x, n, c, v0, u1)
                            + vw * (4 - uw) * At4(x, n, c, v1, u0)
                            + vw * uw * At4(x, n, c, v1, u1)])

\* the unit of the activations' fixed point
FeatOne == 16

\* LeakyRelu (slope 0.2): the result is rounded to units of 1 / FeatOne
LeakyRelu(x) ==
    IF IsErr(x) \/ IsAbs(x) THEN x
    ELSE Tensor(x.shape, FeatOne,
                [p \in 1 .. Prod(x.shape) |->
                    IF x.data[p] >= 0
                    THEN RoundDiv(x.data[p] * FeatOne, x.den)
                    ELSE RoundDiv(x.data[p] * FeatOne, 5 * x.den)])

\* ToRGB.__init__: WeightDemodulatedConvolution2D(in_channels, 3,
\* pointwise=True, demod=False, gain=1)
ToRGBInit(abs, in_channels, seed) ==
    WDCInit(abs, in_channels, 3, TRUE, FALSE, 1, seed)

\* NoiseAdder.__init__: the per-channel scale is zero until it is trained
NoiseAdderInit(abs, channels, trained, seed, salt) ==
    [s |-> IF abs THEN Abstract(<<channels>>)
           ELSE IF trained THEN Gen(seed, salt, <<channels>>)
           ELSE Tensor(<<channels>>, 1, [i \in 1 .. channels |-> 0])]

-----------------------------------------------------------------------------
(* src/stylegan/links/generator.py: InitialSkipArchitecture, SkipArchitecture *)

\* what a block call records of one modulated convolution: the link, its
\* channel counts, the channels of the feature map it was given, the
\* projector that modulated it, the modulation's shape and the style fed
ConvUse(name, L, x, proj, y, style) ==
    [conv |-> name, inC |-> L.w.shape[2], outC |-> L.b.shape[1],
     xshape |-> x.shape, proj |-> proj, mod |-> y.shape, style |-> style]

\* what a block call records of one NoiseAdder: its channels and its input
NoiseUse(name, N, x, after) ==
    [noise |-> name, channels |-> N.s.shape[1], xshape |-> x.shape,
     after |-> after]

\* InitialSkipArchitecture.__init__
InitialInit(abs, size, in_channels, out_channels, trained, seed) ==
    [kind |-> "initial",
     c1 |-> Param(abs, seed, 7, <<in_channels, 4, 4>>),
     s1 |-> SATInit(abs, size, in_channels, seed, 8),
     w1 |-> WDCInit(abs, in_channels, out_channels, FALSE, TRUE, 2, seed),
     n1 |-> NoiseAdderInit(abs, out_channels, trained, seed, 6),
     s2 |-> SATInit(abs, size, out_channels, seed, 10),
     trgb |-> ToRGBInit(abs, out_channels, seed + 1)]

\* the locals of a block call before its first layer: the feature map h and
\* the uses recorded so far
Locals(h) == [h |-> h, trace |-> <<>>]

\* h = conv(h, y), y the projector's output for the style w
ModConv(name, L, proj, w, f, y) ==
    [h |-> WDCCall(L, f.h, y),
     trace |-> Append(f.trace, ConvUse(name, L, f.h, proj, y, w))]

\* h = conv(h, projector(w))
ConvLayer(name, L, proj, S, w, f) == ModConv(name, L, proj, w, f, SATCall(S, w))

\* h = noise(h)
NoiseLayer(name, N, after, draw, f) ==
    [h |-> NoiseAdderCall(N, f.h, draw),
     trace |-> Append(f.trace, NoiseUse(name, N, f.h, after))]

\* h = activation(h)
ActLayer(f) == [f EXCEPT !.h = LeakyRelu(@)]

\* h = up(h)
UpLayer(f) == [f EXCEPT !.h = Upsampler(@)]

\* the pair a block returns: the feature map and the accumulator; contrib is
\* the block's own RGB contribution
Returned(f, y, g) == [x |-> f.h, y |-> y, contrib |-> g.h, trace |-> g.trace]

\* return h5, self.trgb(h5, self.s2(w))
InitialReturnOf(f, g) == Returned(f, g.h, g)

InitialReturn(blk, w, f) ==
    InitialReturnOf(f, ConvLayer("trgb", blk.trgb, "s2", blk.s2, w, f))

\* InitialSkipArchitecture.__call__: the returned pair (x, y), and the uses
InitialCall(blk, w, draw) ==
    LET batch == w.shape[1]
        h1 == Reshape(blk.c1, <<1>> \o blk.c1.shape)
        h2 == BroadcastTo(h1, <<batch>> \o blk.c1.shape)
    IN  InitialReturn(blk, w,
            ActLayer(
            NoiseLayer("n1", blk.n1, "w1", draw[1],
            ConvLayer("w1", blk.w1, "s1", blk.s1, w,
            Locals(h2)))))

\* a slip: the second projector is sized for the block's input channels
SkipInitWrongProjector(abs, size, in_channels, out_channels, trained, seed) ==
    [kind |-> "skip",
     s1 |-> SATInit(abs, size, in_channels, seed, 8),
     w1 |-> WDCInit(abs, in_channels, out_channels, FALSE, TRUE, 2, seed),
     n1 |-> NoiseAdderInit(abs, out_channels, trained, seed, 6),
     s2 |-> SATInit(abs, size, in_channels, seed, 10),
     w2 |-> WDCInit(abs, out_channels, out_channels, FALSE, TRUE, 2, seed + 1),
     n2 |-> NoiseAdderInit(abs, out_channels, trained, seed, 12),
     s3 |-> SATInit(abs, size, out_channels, seed, 13),
     trgb |-> ToRGBInit(abs, out_channels, seed + 2)]

\* SkipArchitecture.__init__
SkipInit(abs, size, in_channels, out_channels, trained, seed) ==
    [kind |-> "skip",
     s1 |-> SATInit(abs, size, in_channels, seed, 8),
     w1 |-> WDCInit(abs, in_channels, out_channels, FALSE, TRUE, 2, seed),
     n1 |-> NoiseAdderInit(abs, out_channels, trained, seed, 6),
     s2 |-> SATInit(abs, size, out_channels, seed, 10),
     w2 |-> WDCInit(abs, out_channels, out_channels, FALSE, TRUE, 2, seed + 1),
     n2 |-> NoiseAdderInit(abs, out_channels, trained, seed, 12),
     s3 |-> SATInit(abs, size, out_channels, seed, 13),
     trgb |-> ToRGBInit(abs, out_channels, seed + 2)]

\* a slip: the incoming accumulator is dropped
SkipReturnNoSkip(f, up, g) == Returned(f, g.h, g)

\* return h7, self.skip(y) + self.trgb(h7, self.s3(w)), given up = self.skip(y)
\* and g, the locals after self.trgb
SkipReturnOf(f, up, g) == Returned(f, TAdd(up, g.h), g)

SkipReturn(blk, y, w, f) ==
    SkipReturnOf(f, Upsampler(y), ConvLayer("trgb", blk.trgb, "s3", blk.s3, w, f))

\* SkipArchitecture.__call__: the returned pair (x, y), and the uses
SkipCall(blk, x, y, w, draw) ==
    SkipReturn(blk, y, w,
        ActLayer(
        NoiseLayer("n2", blk.n2, "w2", draw[2],
        ConvLayer("w2", blk.w2, "s2", blk.s2, w,
        ActLayer(
        NoiseLayer("n1", blk.n1, "w1", draw[1],
        ConvLayer("w1", blk.w1, "s1", blk.s1, w,
        UpLayer(
        Locals(x)))))))))

\* a slip: a call updates a parameter of the block in place (ToRGB's bias)
BlockAfterCallUpdated(blk) ==
    [blk EXCEPT !.trgb.b.data = [i \in DOMAIN @ |-> @[i] + 1]]

\* a block after one of its calls: __call__ assigns no attribute
BlockAfterCall(blk) == blk

NoiseIdle ==
    /\ npc = "new"
    /\ nlayer = [s |-> ErrT]
    /\ nx = ErrT
    /\ nnoise = ErrT
    /\ nout = ErrT

ChainStart(abs) ==
    /\ gpc = "new"
    /\ gabs = abs
    /\ gblocks = <<>>
    /\ gw = ErrT
    /\ gx = ErrT
    /\ gy = ErrT
    /\ gprev = [x |-> ErrT, y |-> ErrT]
    /\ gdraw = <<>>
    /\ gtrace = <<>>
    /\ gcontrib = <<>>
    /\ gagain = <<>>

ChainIdle == ChainStart(FALSE)

ImageIdle ==
    /\ ipc = "start"
    /\ pix = -1
    /\ lin = 0
    /\ enc = -1

\* the strictly sequential evaluation of sample i: one convolution of the
\* edge-padded sample with its own weights w[o, ci, u, v] * y[i, ci],
\* demodulated per output channel if demod, plus the bias if bias
SeqSample(L, x, y, i, demod, bias) ==
    LET cout_ == L.w.shape[1]
        cin == L.w.shape[2]
        k == L.ksize
        inner == cin * k * k
        shape == <<1, cout_, x.shape[3], x.shape[4]>>
        modw == [o \in 0 .. cout_ - 1 |-> [t \in 0 .. inner - 1 |->
                    L.w.data[1 + o * inner + t]
                    * y.data[1 + i * cin + (t \div (k * k))]]]
        ss == [o \in 0 .. cout_ - 1 |->
                    SumTo(LAMBDA t : Square(modw[o][t]), inner)]
        wt == [o \in 0 .. cout_ - 1 |-> [t \in 0 .. inner - 1 |->
                    IF demod THEN Normalise(modw[o][t], ss[o]) ELSE modw[o][t]]]
        wden == IF demod THEN DemodOne ELSE L.w.den * y.den
    IN  Tensor(shape, x.den * wden * L.b.den,
               [q \in 1 .. Prod(shape) |->
                   LET o == ((q - 1) \div (shape[3] * shape[4])) % cout_
                       h == ((q - 1) \div shape[4]) % shape[3]
                       v == (q - 1) % shape[4]
                   IN  SumTo(LAMBDA t :
                               At4(x, i, t \div (k * k),
                                   Clip(h + ((t \div k) % k) - L.pad,
                                        0, x.shape[3] - 1),
                                   Clip(v + (t % k) - L.pad,
                                        0, x.shape[4] - 1))
                               * wt[o][t],
                             inner) * L.b.den
                       + (IF bias THEN L.b.data[o + 1] * x.den * wden
                          ELSE 0)])

\* the inputs fit the link: x has its in_channels, y is (batch, in_channels)
WellFormed(L, x, y) ==
    /\ x.shape[2] = L.w.shape[2]
    /\ y.shape = <<x.shape[1], x.shape[2]>>

MaxBatch == 2

MaxChannels == 2

MaxPixels == 2

NumSeeds == 2

ConvIdle ==
    /\ cpc = "new"
    /\ clayer = [seed |-> 0]
    /\ cx = ErrT
    /\ cy = ErrT
    /\ cout = ErrT
    /\ chshape = ErrShape
    /\ cseq = <<>>

ConvInit == ConvIdle /\ ImageIdle /\ NoiseIdle /\ ChainIdle

\* a link is constructed: the feature convolution's defaults (3x3, demod,
\* gain root(2)), ToRGB's arguments (pointwise, no demod, gain 1), and the
\* two other combinations of pointwise and demod with the default gain
Build ==
    /\ cpc = "new"
    /\ \E inC \in 1 .. MaxChannels, outC \in 1 .. MaxChannels,
          pointwise \in BOOLEAN, demod \in BOOLEAN, seed \in 0 .. NumSeeds - 1 :
          clayer' = [seed |-> seed,
                     link |-> WDCInit(FALSE, inC, outC, pointwise, demod,
                                      IF pointwise /\ ~demod THEN 1 ELSE 2, seed)]
    /\ cpc' = "built"
    /\ UNCHANGED <<cx, cy, cout, chshape, cseq, imgVars, noiseVars, chainVars>>

\* a caller prepares a feature map and a modulation: any batch, channel count
\* and size, the modulation as (batch, channels), as (channels, batch) or
\* with one entry too many per sample
Feed ==
    /\ cpc = "built"
    /\ \E batch \in 1 .. MaxBatch, xc \in 1 .. MaxChannels,
          h \in 1 .. MaxPixels, form \in {"rows", "cols", "long"} :
          \E w \in 1 .. MaxPixels \div h :
             /\ cx' = Gen(clayer.seed, 3, <<batch, xc, h, w>>)
             /\ cy' = Gen(clayer.seed, 4,
                          CASE form = "rows" -> <<batch, xc>>
                            [] form = "cols" -> <<xc, batch>>
                            [] form = "long" -> <<batch, xc + 1>>)
    /\ cpc' = "fed"
    /\ UNCHANGED <<clayer, cout, chshape, cseq, imgVars, noiseVars, chainVars>>

Call ==
    /\ cpc = "fed"
    /\ LET h == WDCGrouped(clayer.link, cx, cy)
       IN  /\ cout' = WDCReturn(clayer.link, cx, h)
           /\ chshape' = h.shape
    /\ cpc' = "called"
    /\ UNCHANGED <<clayer, cx, cy, cseq, imgVars, noiseVars, chainVars>>

\* the reference: the next sample is evaluated on its own
SeqStep ==
    /\ cpc = "called"
    /\ WellFormed(clayer.link, cx, cy)
    /\ Len(cseq) < cx.shape[1]
    /\ LET i == Len(cseq)
           L == clayer.link
       IN  cseq' = Append(cseq,
                [seq |-> SeqSample(L, cx, cy, i, L.demod, TRUE),
                 alone |-> WDCCall(L, SliceBatch(cx, i), SliceBatch(cy, i)),
                 raw |-> SeqSample(L, cx, cy, i, FALSE, FALSE)])
    /\ cpc' = IF Len(cseq) + 1 = cx.shape[1] THEN "done" ELSE "called"
    /\ UNCHANGED <<clayer, cx, cy, cout, chshape, imgVars, noiseVars, chainVars>>

ConvNext == Build \/ Feed \/ Call \/ SeqStep

SpecConv == ConvInit /\ [][ConvNext]_vars

Called == cpc \in {"called", "done"}

\* C1: each sample's slice of the batched (grouped-convolution) output equals
\* the strictly sequential evaluation of that sample alone, and equals
\* __call__ run on that sample as a batch of its own.
BatchIndependence ==
    Called /\ WellFormed(clayer.link, cx, cy) =>
        \A i \in 1 .. Len(cseq) :
            /\ TEq(SliceBatch(cout, i - 1), cseq[i].seq)
            /\ TEq(SliceBatch(cout, i - 1), cseq[i].alone)

BatchIndependenceWitness ==
    /\ cpc = "done"
    /\ cx.shape = <<2, 2, 2, 1>>
    /\ clayer.link.demod
    /\ clayer.link.ksize = 3
    /\ ~TEq(cseq[1].seq, cseq[2].seq)
    /\ TEq(SliceBatch(cout, 1), cseq[2].seq)

\* C4: on inputs that fit the link, __call__ returns (B, Cout, H, W): the
\* grouped convolution of the padded input has the input's height and width.
SamePadded ==
    Called /\ WellFormed(clayer.link, cx, cy) =>
        /\ ~IsErr(cout)
        /\ chshape = <<1, cx.shape[1] * clayer.link.b.shape[1],
                       cx.shape[3], cx.shape[4]>>
        /\ cout.shape = <<cx.shape[1], clayer.link.b.shape[1],
                          cx.shape[3], cx.shape[4]>>

SamePaddedWitness ==
    /\ cpc = "called"
    /\ clayer.link.ksize = 3
    /\ cx.shape = <<2, 2, 1, 2>>
    /\ cy.shape = <<2, 2>>
    /\ cout.shape = <<2, 1, 1, 2>>

\* C6: a non-demodulated link's output minus its bias is c times the
\* convolution with the modulated learned weights, c = gain * root(1 / (Cin *
\* k^2)); with c2 = c^2 as a fraction: (out - b)^2 * c2[2] = c2[1] * raw^2.
EqualizedScaleApplied ==
    cpc = "done" /\ ~clayer.link.demod =>
        \A i \in 1 .. Len(cseq) :
            LET L == clayer.link
                out == SliceBatch(cout, i - 1)
                raw == cseq[i].raw
            IN  \A p \in 1 .. Prod(out.shape) :
                    LET o == Unravel(p - 1, out.shape)[2]
                        d == out.data[p] * L.b.den - L.b.data[o + 1] * out.den
                    IN  Square(d * raw.den) * L.c2[2]
                            = L.c2[1] * Square(raw.data[p] * out.den * L.b.den)

\* C7: a feature map whose channel count is not the link's in_channels, or a
\* modulation whose shape is not (B, Cin), makes __call__ raise.
MismatchFailsFast ==
    Called /\ ~WellFormed(clayer.link, cx, cy) => IsErr(cout)

-----------------------------------------------------------------------------
(* One NoiseAdder call *)

NumDraws == 2

NoiseInit == NoiseIdle /\ ImageIdle /\ ConvIdle /\ ChainIdle

BuildNoise ==
    /\ npc = "new"
    /\ \E channels \in 1 .. MaxChannels, trained \in BOOLEAN,
          seed \in 0 .. NumSeeds - 1 :
          nlayer' = NoiseAdderInit(FALSE, channels, trained, seed, 6)
    /\ npc' = "built"
    /\ UNCHANGED <<nx, nnoise, nout, imgVars, convVars, chainVars>>

FeedNoise ==
    /\ npc = "built"
    /\ \E batch \in 1 .. MaxBatch, h \in 1 .. MaxPixels, seed \in 0 .. NumSeeds - 1 :
          \E w \in 1 .. MaxPixels \div h :
             nx' = Gen(seed, 3, <<batch, nlayer.s.shape[1], h, w>>)
    /\ npc' = "fed"
    /\ UNCHANGED <<nlayer, nnoise, nout, imgVars, convVars, chainVars>>

CallNoise ==
    /\ npc = "fed"
    /\ \E draw \in 0 .. NumDraws :
          /\ nnoise' = NoiseDraw(FALSE, draw,
                                 <<nx.shape[1], 1, nx.shape[3], nx.shape[4]>>)
          /\ nout' = NoiseAdderCall(nlayer, nx, draw)
    /\ npc' = "called"
    /\ UNCHANGED <<nlayer, nx, imgVars, convVars, chainVars>>

NoiseNext == BuildNoise \/ FeedNoise \/ CallNoise

SpecNoise == NoiseInit /\ [][NoiseNext]_vars

\* C9: the value NoiseAdder adds to channel c at a pixel is the one-channel
\* draw at that pixel times scale[c]; with the scale all zero (its initial
\* value) the output is the input, whatever the draw.
NoisePerChannelScale ==
    npc = "called" =>
        /\ ~IsErr(nout)
        /\ nout.shape = nx.shape
        /\ \A b \in 0 .. nx.shape[1] - 1, c \in 0 .. nx.shape[2] - 1,
              h \in 0 .. nx.shape[3] - 1, w \in 0 .. nx.shape[4] - 1 :
              At4(nout, b, c, h, w) * nx.den - At4(nx, b, c, h, w) * nout.den
                  = At4(nnoise, b, 0, h, w) * nlayer.s.data[c + 1] * nout.den
        /\ (\A c \in 1 .. nx.shape[2] : nlayer.s.data[c] = 0) => TEq(nout, nx)

NoisePerChannelScaleWitness ==
    /\ npc = "called"
    /\ nx.shape = <<2, 2, 1, 2>>
    /\ nlayer.s.data[1] # 0
    /\ nlayer.s.data[1] # nlayer.s.data[2]
    /\ At4(nnoise, 1, 0, 0, 1) # 0
    /\ ~TEq(nout, nx)

-----------------------------------------------------------------------------
(* The generator: a chain of blocks *)

MaxStyle == 2

MaxBlocks == 3

MaxValueSide == 4

\* the noise draws of one block call: pinned to zero, or seeded
Draws == {<<0, 0>>, <<1, 2>>}

ShapeInit == ChainStart(TRUE) /\ ImageIdle /\ ConvIdle /\ NoiseIdle

ValueInit == ChainIdle /\ ImageIdle /\ ConvIdle /\ NoiseIdle

LastBlock == gblocks[Len(gblocks)]

\* the batch sizes and style lengths a run draws from: all of them when only
\* shapes are tracked, the largest when values are
Batches == IF gabs THEN 1 .. MaxBatch ELSE {MaxBatch}

StyleSizes == IF gabs THEN 1 .. MaxStyle ELSE {MaxStyle}

\* the first block is constructed and a batch of style vectors arrives
BuildInitial ==
    /\ gpc = "new"
    /\ \E size \in StyleSizes, batch \in Batches,
          inC \in 1 .. MaxChannels, outC \in 1 .. MaxChannels :
          /\ gblocks' = <<InitialInit(gabs, size, inC, outC, TRUE, inC + outC)>>
          /\ gw' = Param(gabs, batch + size, 11, <<batch, size>>)
    /\ gpc' = "built"
    /\ UNCHANGED <<gabs, gx, gy, gprev, gdraw, gtrace, gcontrib, gagain,
                   imgVars, convVars, noiseVars>>

\* a caller hands over the output of earlier blocks: any feature map and
\* accumulator of one size (here 1 x 1)
FeedChain ==
    /\ gpc = "new"
    /\ \E size \in StyleSizes, batch \in Batches, c \in 1 .. MaxChannels :
          /\ gw' = Param(gabs, batch + size, 11, <<batch, size>>)
          /\ gx' = Param(gabs, c + size, 3, <<batch, c, 1, 1>>)
          /\ gy' = Param(gabs, c + batch, 4, <<batch, 3, 1, 1>>)
          /\ gcontrib' = <<Param(gabs, c + batch, 4, <<batch, 3, 1, 1>>)>>
    /\ gpc' = "ran"
    /\ UNCHANGED <<gabs, gblocks, gprev, gdraw, gtrace, gagain,
                   imgVars, convVars, noiseVars>>

\* the caller takes what a block call returned
Take(r, draw, contribs) ==
    /\ gx' = r.x
    /\ gy' = r.y
    /\ gtrace' = r.trace
    /\ gcontrib' = Append(contribs, r.contrib)
    /\ gdraw' = draw

CallInitial ==
    /\ gpc = "built"
    /\ LastBlock.kind = "initial"
    /\ \E draw \in Draws : Take(InitialCall(LastBlock, gw, draw), draw, <<>>)
    /\ gblocks' = [gblocks EXCEPT ![Len(gblocks)] = BlockAfterCall(@)]
    /\ gprev' = [x |-> gx, y |-> gy]
    /\ gagain' = <<>>
    /\ gpc' = "ran"
    /\ UNCHANGED <<gabs, gw, imgVars, convVars, noiseVars>>

\* the next block is constructed, its in_channels those of the feature map
GrowSkip ==
    /\ gpc = "ran"
    /\ gagain = <<>>
    /\ Len(gblocks) < MaxBlocks
    /\ ~IsErr(gx)
    /\ gabs \/ 2 * gx.shape[3] <= MaxValueSide
    /\ \E outC \in 1 .. MaxChannels :
          gblocks' = Append(gblocks,
                            SkipInit(gabs, gw.shape[2], gx.shape[2], outC, TRUE,
                                     Len(gblocks) + outC))
    /\ gpc' = "built"
    /\ UNCHANGED <<gabs, gw, gx, gy, gprev, gdraw, gtrace, gcontrib, gagain,
                   imgVars, convVars, noiseVars>>

CallSkip ==
    /\ gpc = "built"
    /\ LastBlock.kind = "skip"
    /\ \E draw \in Draws :
          Take(SkipCall(LastBlock, gx, gy, gw, draw), draw, gcontrib)
    /\ gblocks' = [gblocks EXCEPT ![Len(gblocks)] = BlockAfterCall(@)]
    /\ gprev' = [x |-> gx, y |-> gy]
    /\ gagain' = <<>>
    /\ gpc' = "ran"
    /\ UNCHANGED <<gabs, gw, imgVars, convVars, noiseVars>>

\* the caller takes what the second pass returned
TakeAgain(r, draw) == gagain' = <<[x |-> r.x, y |-> r.y, draw |-> draw]>>

\* a second forward pass of the last block, on the inputs of the first
Repeat ==
    /\ gpc = "ran"
    /\ Len(gblocks) > 0
    /\ gagain = <<>>
    /\ \E draw \in Draws :
          TakeAgain(IF LastBlock.kind = "initial"
                    THEN InitialCall(LastBlock, gw, draw)
                    ELSE SkipCall(LastBlock, gprev.x, gprev.y, gw, draw),
                    draw)
    /\ gblocks' = [gblocks EXCEPT ![Len(gblocks)] = BlockAfterCall(@)]
    /\ UNCHANGED <<gpc, gabs, gw, gx, gy, gprev, gdraw, gtrace, gcontrib,
                   imgVars, convVars, noiseVars>>

ChainNext ==
    BuildInitial \/ FeedChain \/ CallInitial \/ GrowSkip \/ CallSkip \/ Repeat

\* the generator with only the shapes of its tensors tracked
SpecShape == ShapeInit /\ [][ChainNext]_vars

\* the generator with the values of its tensors
SpecChain == ValueInit /\ [][ChainNext]_vars

StartedInitial == Len(gblocks) > 0 /\ gblocks[1].kind = "initial"

\* the out_channels a block was constructed with
OutChannels(blk) == blk.trgb.w.shape[2]

\* the last block has been called and has returned
BlockReturned == gpc = "ran" /\ Len(gblocks) > 0

RECURSIVE Pow2(_)
Pow2(n) == IF n = 0 THEN 1 ELSE 2 * Pow2(n - 1)

RECURSIVE UpTimes(_, _)
\* t upsampled k times
UpTimes(t, k) == IF k = 0 THEN t ELSE UpTimes(Upsampler(t), k - 1)

RECURSIVE ContribSum(_)
\* the first k RGB contributions, each upsampled once per later stage
ContribSum(k) ==
    IF k = 1 THEN UpTimes(gcontrib[1], Len(gcontrib) - 1)
    ELSE TAdd(ContribSum(k - 1), UpTimes(gcontrib[k], Len(gcontrib) - k))

\* C2: the accumulator a SkipArchitecture call returns is Upsampler(y) plus
\* ToRGB of the block's final feature map, y being the accumulator it was
\* given; so over a chain the accumulator is the sum of every stage's RGB
\* contribution, each upsampled once per later stage.
SkipAccumulation ==
    (BlockReturned /\ LastBlock.kind = "skip") =>
        /\ ~IsErr(gy)
        /\ TEq(gy, TAdd(Upsampler(gprev.y),
                        WDCCall(LastBlock.trgb, gx, SATCall(LastBlock.s3, gw))))
        /\ TEq(gy, ContribSum(Len(gcontrib)))

\* two skip blocks have run on a non-zero accumulator: 1 x 1 to 4 x 4
SkipAccumulationWitness ==
    /\ BlockReturned
    /\ Len(gblocks) = 2
    /\ LastBlock.kind = "skip"
    /\ Len(gcontrib) = 3
    /\ gy.shape = <<2, 3, 4, 4>>
    /\ \E p \in DOMAIN gprev.y.data : gprev.y.data[p] # 0
    /\ \E p \in DOMAIN gcontrib[3].data : gcontrib[3].data[p] # 0

ResolutionProgression ==
    BlockReturned =>
        LET n == Len(gcontrib) - 1
            B == gw.shape[1]
            side == gcontrib[1].shape[3] * Pow2(n)
        IN  /\ StartedInitial => gcontrib[1].shape = <<B, 3, 4, 4>>
            /\ gx.shape = <<B, OutChannels(LastBlock), side, side>>
            /\ gy.shape = <<B, 3, side, side>>
            /\ LastBlock.kind = "skip" =>
                   gtrace[1].xshape = <<gprev.x.shape[1], gprev.x.shape[2],
                                        2 * gprev.x.shape[3], 2 * gprev.x.shape[4]>>

\* the initial block and two skip blocks have run: 4 x 4 to 16 x 16
ResolutionProgressionWitness ==
    /\ BlockReturned
    /\ StartedInitial
    /\ Len(gblocks) = 3
    /\ gx.shape = <<2, 2, 16, 16>>
    /\ gy.shape = <<2, 3, 16, 16>>
    /\ gprev.x.shape = <<2, 1, 8, 8>>

IsConvUse(u) == "conv" \in DOMAIN u

IsNoiseUse(u) == "noise" \in DOMAIN u

\* C10: in every block each modulated convolution is modulated by its own
\* projector, whose output length is the convolution's input-channel count;
\* every projector is fed the same style; each layer's out-channel count is
\* the in-channel count of the layer consuming its output; each NoiseAdder's
\* channel count is the out-channel count of the convolution it follows.
ChannelWiring ==
    BlockReturned =>
        LET B == gw.shape[1]
            convs == SelectSeq(gtrace, IsConvUse)
            noises == SelectSeq(gtrace, IsNoiseUse)
        IN  /\ ~IsErr(gx)
            /\ ~IsErr(gy)
            /\ Len(convs) = (IF LastBlock.kind = "initial" THEN 2 ELSE 3)
            /\ Len(noises) = Len(convs) - 1
            /\ \A i \in 1 .. Len(convs) :
                   /\ convs[i].mod = <<B, convs[i].inC>>
                   /\ convs[i].style = gw
                   /\ convs[i].xshape[2] = convs[i].inC
            /\ \A i, j \in 1 .. Len(convs) :
                   i # j => convs[i].proj # convs[j].proj
            /\ \A i \in 1 .. Len(convs) - 1 : convs[i].outC = convs[i + 1].inC
            /\ \A k \in 1 .. Len(noises) :
                   /\ noises[k].after = convs[k].conv
                   /\ noises[k].channels = convs[k].outC
                   /\ noises[k].xshape[2] = noises[k].channels

\* a skip block from 1 to 2 channels has run
ChannelWiringWitness ==
    /\ BlockReturned
    /\ LastBlock.kind = "skip"
    /\ Len(gtrace) = 5
    /\ gtrace[1].inC = 1
    /\ gtrace[1].outC = 2
    /\ gtrace[3].mod = <<2, 2>>
    /\ gx.shape[2] = 2

-----------------------------------------------------------------------------
(* src/utilities/image.py *)

FixOne == 32768

FixMul(a, b) == (a * b) \div FixOne

FixPow3(z) == FixMul(FixMul(z, z), z)

FixPow5(z) == FixMul(FixMul(FixMul(z, z), FixMul(z, z)), z)

\* u ** 2.4 for 0 <= u <= 1.0: u^2 times the fifth root of u^2
FixPow12over5(u) ==
    LET u2 == FixMul(u, u)
    IN  FixMul(u2, SearchLargest(FixPow5, u2, 0, FixOne))

\* u ** (1 / 2.4) for u >= 0: the fifth power of the twelfth root
FixPow5over12(u) ==
    LET r4 == Isqrt(Isqrt(u * FixOne) * FixOne)
    IN  FixPow5(SearchLargest(FixPow3, r4, 0, (5 * FixOne) \div 4))

\* division by a positive number, truncated towards zero
DivTrunc(a, b) == IF a >= 0 THEN a \div b ELSE 0 - ((0 - a) \div b)

\* a slip: the exponent is 2 instead of 2.4
GammaReverseMut(v) ==
    IF v * 100000 <= 4045 * 255
    THEN (v * FixOne * 100) \div (255 * 1292)
    ELSE FixMul(((40 * v + 561) * FixOne) \div 10761,
                ((40 * v + 561) * FixOne) \div 10761)

\* gamma_reverse(v / 255) of load_image, for an 8-bit sample v: (v / 255 +
\* 0.055) / 1.055 is (40 v + 561) / 10761
GammaReverse(v) ==
    IF v * 100000 <= 4045 * 255
    THEN (v * FixOne * 100) \div (255 * 1292)
    ELSE FixPow12over5(((40 * v + 561) * FixOne) \div 10761)

\* gamma_forward(u)
GammaForward(u) ==
    IF u <= (31308 * FixOne) \div 10000000
    THEN DivTrunc(1292 * u, 100)
    ELSE (1055 * FixPow5over12(u)) \div 1000 - (55 * FixOne) \div 1000

\* numpy.rint of e * 255: round half to even
Rint255(e) ==
    LET n == e * 255
        q == n \div FixOne
        r == n % FixOne
    IN  IF 2 * r > FixOne \/ (2 * r = FixOne /\ q % 2 = 1) THEN q + 1 ELSE q

\* one sample of to_pil_image: clip(rint(rgb_to_srgb(u) * 255), 0, 255)
ToPilSample(u) == Clip(Rint255(GammaForward(u)), 0, 255)

\* linear-light samples a generator may hand to save_image: below 0, above 1
SynthStep == 2048

SynthSamples == {k * SynthStep : k \in -4 .. 24}

ImageInit == ImageIdle /\ ConvIdle /\ NoiseIdle /\ ChainIdle

LoadImage ==
    /\ ipc = "start"
    /\ \E v \in 0 .. 255 :
          /\ pix' = v
          /\ lin' = GammaReverse(v)
    /\ ipc' = "loaded"
    /\ UNCHANGED <<enc, convVars, noiseVars, chainVars>>

Synthesize ==
    /\ ipc = "start"
    /\ \E u \in SynthSamples : lin' = u
    /\ ipc' = "loaded"
    /\ UNCHANGED <<pix, enc, convVars, noiseVars, chainVars>>

SaveImage ==
    /\ ipc = "loaded"
    /\ enc' = ToPilSample(lin)
    /\ ipc' = "saved"
    /\ UNCHANGED <<pix, lin, convVars, noiseVars, chainVars>>

ImageNext == LoadImage \/ Synthesize \/ SaveImage

SpecImage == ImageInit /\ [][ImageNext]_vars

\* C8: a sample loaded from an 8-bit file and saved again is within one level
\* of the original, and every sample save writes lies in 0..255.
ColourRoundTrip ==
    ipc = "saved" =>
        /\ enc \in 0 .. 255
        /\ pix # -1 => Abs(enc - pix) <= 1

ColourRoundTripWitness ==
    /\ ipc = "saved"
    /\ pix = 200
    /\ enc = 200

=============================================================================
